---- MODULE Spec2Model ----
(***************************************************************************)
(* The PhotonImage container, the Rgb colour type and the host/codec glue  *)
(* of photon's crate root (src/crate/src/lib.rs), as a state machine.      *)
(*                                                                         *)
(* A caller holds at most one PhotonImage (image) and one Rgb (rgb) and    *)
(* calls the public operations of lib.rs on them.  Every operation is one  *)
(* action; a Rust panic (an unwrap() on Err, a panic!) is the outcome      *)
(* "panic", a normal return is the outcome "ok".  lib.rs has no other way  *)
(* of ending a call: none of these functions returns a Result.             *)
(*                                                                         *)
(* The host (web_sys::ImageData, the canvas context) and the two crates   *)
(* the glue calls (base64::decode, image::load_from_memory) are modelled  *)
(* by what they return to lib.rs: a value or an Err.  An ImageData holds   *)
(* its own data, width and height.  run and putImageData, which only act  *)
(* on the page, are left out.                                              *)
(***************************************************************************)
EXTENDS Integers, Sequences, FiniteSets

\* ------------------------------------------------------------------ bounds
\* Largest width / height handed to an operation (0 is a legal u32 too).
MaxDim == 2
\* Longest byte vector handed to PhotonImage::new and Rgb::from.
MaxLen == 8

Dim == 0..MaxDim
\* Pixel contents are drawn from two fill patterns.
Seeds == {0, 1}

\* A canvas element with its 2D context: its size and what is drawn on it.
\* (Records are written width, height first throughout.)
Canvases == [width : Dim, height : Dim, seed : Seeds]

\* Input bytes: n bytes of pattern `seed` (all of them distinct u8 values).
Fill(seed, n) == [i \in 1..n |-> (97 * seed + 41 * i + 7) % 256]

VARIABLES
    image,     \* <<>> or <<PhotonImage>>: the image value the caller holds
    pre,       \* image as it was before the last method call on it; <<>> after a constructor
    rgb,       \* <<>> or <<Rgb>>: the colour value the caller holds
    preRgb,    \* rgb as it was before the last method call on it; <<>> after a constructor
    given,     \* the r, g, b most recently given to rgb by new / from / a setter
    op,        \* the operation called last
    outcome,   \* "ok": it returned; "panic": it aborted
    arg,       \* its arguments: [bytes, width, height]
    retNum,    \* the u32 / u8 it returned
    retVec,    \* the Vec<u8> it returned, as the caller holds it now
    alias,     \* whether retVec shares image's buffer
    retData,   \* the ImageData it returned
    origin     \* the image retData was made from (<<>>: none)

vars == <<image, pre, rgb, preRgb, given, op, outcome, arg, retNum, retVec, alias,
          retData, origin>>

\* ------------------------------------------------------------ host values
\* web_sys::ImageData: a host object with data, width and height.
NoData == [width |-> 0, height |-> 0, data |-> <<>>]
NoArg == [width |-> 0, height |-> 0, bytes |-> <<>>]

Ok(v) == [ok |-> TRUE, val |-> v]
Err == [ok |-> FALSE, val |-> NoData]

\* new ImageData(data, sw, sh) of the host (HTML Standard, ImageData
\* constructor): a zero dimension, a length that is not a nonzero multiple of
\* four, or a length other than 4 * sw * sh throws, which web_sys returns as Err.
ImageData_new(data, sw, sh) ==
    IF sw = 0 \/ sh = 0 THEN Err
    ELSE IF Len(data) = 0 \/ Len(data) % 4 # 0 THEN Err
    ELSE IF (Len(data) \div 4) % sw # 0 THEN Err
    ELSE IF (Len(data) \div 4) \div sw # sh THEN Err
    ELSE Ok([width |-> sw, height |-> sh, data |-> data])

\* An ImageData the host can hold: the pixels of a w x h canvas region.
HostImageData == { [width |-> w, height |-> h, data |-> Fill(s, 4 * w * h)] :
                   s \in Seeds, w \in 1..MaxDim, h \in 1..MaxDim }

\* ----------------------------------------------------------- PhotonImage
PhotonImage(raw_pixels, width, height) ==
    [width |-> width, height |-> height, raw_pixels |-> raw_pixels]

\* Vec::clone / to_vec: a new vector with the same elements.
Clone(v) == [i \in 1..Len(v) |-> v[i]]

new(raw_pixels, width, height) == PhotonImage(raw_pixels, width, height)

get_width(self) == self.width

\* get_height returning the other dimension.
get_height_returns_width(self) == self.width

get_height(self) == self.height

\* get_raw_pixels handing out the image's own buffer instead of a clone.
get_raw_pixels_shared(self) == [vec |-> self.raw_pixels, shares |-> TRUE]

get_raw_pixels(self) == [vec |-> Clone(self.raw_pixels), shares |-> FALSE]

to_raw_pixels(imgdata) == Clone(imgdata.data)

\* set_imgdata updating the raw pixels only, as its doc comment reads.
set_imgdata_pixels_only(self, img_data) ==
    [self EXCEPT !.raw_pixels = to_raw_pixels(img_data)]

\* The values set_imgdata leaves in self.
set_imgdata(self, img_data) ==
    [self EXCEPT !.width = img_data.width,
                 !.height = img_data.height,
                 !.raw_pixels = to_raw_pixels(img_data)]

\* From<ImageData> with width and height exchanged.
PhotonImage_from_swapped(imgdata) ==
    PhotonImage(to_raw_pixels(imgdata), imgdata.height, imgdata.width)

PhotonImage_from(imgdata) ==
    PhotonImage(to_raw_pixels(imgdata), imgdata.width, imgdata.height)

\* PhotonImage::get_image_data and to_image_data: the host constructor's
\* result, which the code unwraps.
image_data_of(self) == ImageData_new(self.raw_pixels, self.width, self.height)

\* ------------------------------------------------------------- host glue
\* ctx.get_image_data(0, 0, width, height) of the host: a zero width or
\* height throws (IndexSizeError), else the region's pixels.
ctx_get_image_data(canvas) ==
    IF canvas.width = 0 \/ canvas.height = 0 THEN Err
    ELSE Ok([width |-> canvas.width, height |-> canvas.height,
             data |-> Fill(canvas.seed, 4 * canvas.width * canvas.height)])

\* get_image_data(canvas, ctx): the context's ImageData, unwrapped.
get_image_data(canvas) == ctx_get_image_data(canvas)

\* open_image(canvas, ctx): ok = FALSE is the panic of the unwrap.
open_image(canvas) ==
    LET imgdata == get_image_data(canvas)
    IN IF ~imgdata.ok THEN Err
       ELSE Ok(PhotonImage(to_raw_pixels(imgdata.val), canvas.width, canvas.height))

\* ---------------------------------------------------------------- base64
\* A base64 string is a sequence of symbols: 0..63 are the alphabet's
\* sextets, Pad is '=', Bad is a byte outside the alphabet.
Pad == 64
Bad == 65

RECURSIVE StripPad(_)
StripPad(s) ==
    IF Len(s) > 0 /\ s[Len(s)] = Pad THEN StripPad(SubSeq(s, 1, Len(s) - 1)) ELSE s

\* The bytes of the complete quads and of the last partial quad of sextets.
RECURSIVE DecodeSextets(_)
DecodeSextets(s) ==
    IF Len(s) >= 4
    THEN LET n == s[1] * 262144 + s[2] * 4096 + s[3] * 64 + s[4]
         IN <<n \div 65536, (n \div 256) % 256, n % 256>>
            \o DecodeSextets(SubSeq(s, 5, Len(s)))
    ELSE IF Len(s) = 3
    THEN <<s[1] * 4 + s[2] \div 16, (s[2] % 16) * 16 + s[3] \div 4>>
    ELSE IF Len(s) = 2
    THEN <<s[1] * 4 + s[2] \div 16>>
    ELSE <<>>

\* base64::decode (standard alphabet): Err on a symbol outside the alphabet
\* (padding anywhere but at the end included), on more padding than the last
\* quad takes, on a length of 1 mod 4, and on a last symbol with stray bits;
\* else the bytes of the sextets.
decode(s) ==
    LET body == StripPad(s)
        pads == Len(s) - Len(body)
        rem == Len(body) % 4
        last == IF Len(body) = 0 THEN 0 ELSE body[Len(body)]
    IN IF \E i \in 1..Len(body) : body[i] \notin 0..63 THEN [ok |-> FALSE, val |-> <<>>]
       ELSE IF rem = 1 THEN [ok |-> FALSE, val |-> <<>>]
       ELSE IF pads > (4 - rem) % 4 THEN [ok |-> FALSE, val |-> <<>>]
       ELSE IF rem = 2 /\ last % 16 # 0 THEN [ok |-> FALSE, val |-> <<>>]
       ELSE IF rem = 3 /\ last % 4 # 0 THEN [ok |-> FALSE, val |-> <<>>]
       ELSE [ok |-> TRUE, val |-> DecodeSextets(body)]

\* base64_to_vec(base64): ok = FALSE is the panic of the unwrap.
base64_to_vec(base64) == decode(base64)

\* ----------------------------------------------------------------- codec
\* image::load_from_memory stands behind a small container with the layout
\* of a PNG header: a signature byte, the colour type (PNG's codes), the
\* width, the height, then the samples, row-major, channel-interleaved.
Magic == 137
Grey == 0
RGB == 2
GreyAlpha == 4
RGBA == 6
ColorTypes == {Grey, RGB, GreyAlpha, RGBA}
HeaderLen == 4

Channels(color) ==
    IF color = Grey THEN 1 ELSE IF color = GreyAlpha THEN 2 ELSE IF color = RGB THEN 3 ELSE 4

NoDynamicImage == [width |-> 0, height |-> 0, color |-> Grey, buf |-> <<>>]

\* image::load_from_memory(buf): Err on an unknown signature, an unknown
\* colour type, a zero dimension or a sample count other than
\* channels * width * height; else the DynamicImage in the file's colour type.
load_from_memory(file) ==
    IF Len(file) < HeaderLen \/ file[1] # Magic THEN [ok |-> FALSE, val |-> NoDynamicImage]
    ELSE IF file[2] \notin ColorTypes THEN [ok |-> FALSE, val |-> NoDynamicImage]
    ELSE IF file[3] = 0 \/ file[4] = 0 THEN [ok |-> FALSE, val |-> NoDynamicImage]
    ELSE IF Len(file) - HeaderLen # Channels(file[2]) * file[3] * file[4]
         THEN [ok |-> FALSE, val |-> NoDynamicImage]
    ELSE [ok |-> TRUE,
          val |-> [width |-> file[3], height |-> file[4], color |-> file[2],
                   buf |-> SubSeq(file, HeaderLen + 1, Len(file))]]

\* DynamicImage::raw_pixels: the samples in the image's own colour type.
DynamicImage_raw_pixels(img) == Clone(img.buf)

NoImage == PhotonImage(<<>>, 0, 0)

\* PhotonImage::new_from_byteslice(vec): ok = FALSE is the panic of the unwrap.
new_from_byteslice(vec) ==
    LET img == load_from_memory(vec)
    IN IF ~img.ok THEN [ok |-> FALSE, val |-> NoImage]
       ELSE [ok |-> TRUE,
             val |-> PhotonImage(DynamicImage_raw_pixels(img.val), img.val.width, img.val.height)]

\* base64_to_image(base64): ok = FALSE is the panic of either unwrap.
base64_to_image(base64) ==
    LET vec == base64_to_vec(base64)
        img == load_from_memory(vec.val)
    IN IF ~vec.ok THEN [ok |-> FALSE, val |-> NoImage]
       ELSE IF ~img.ok THEN [ok |-> FALSE, val |-> NoImage]
       ELSE [ok |-> TRUE,
             val |-> PhotonImage(DynamicImage_raw_pixels(img.val), img.val.width, img.val.height)]

new_from_base64(base64) == base64_to_image(base64)

\* ---------------------------------------------------------------- inputs
\* Files handed to the decoders: every colour type and size, well formed,
\* and the malformed ones: empty, wrong signature, unknown colour type, zero
\* width, one sample short.
GoodFile(color, w, h, s) == <<Magic, color, w, h>> \o Fill(s, Channels(color) * w * h)

Files ==
    { GoodFile(c, w, h, 0) : c \in ColorTypes, w \in 1..MaxDim, h \in 1..MaxDim }
    \cup { <<>>, <<Magic - 1, RGBA, 1, 1>> \o Fill(0, 4), <<Magic, RGBA + 1, 1, 1>> \o Fill(0, 4),
           <<Magic, RGBA, 0, 1>>, <<Magic, RGBA, 1, 1>> \o Fill(0, 3) }

\* The standard padded base64 text of a byte vector.
RECURSIVE Encode(_)
Encode(vec) ==
    IF Len(vec) >= 3
    THEN LET n == vec[1] * 65536 + vec[2] * 256 + vec[3]
         IN <<n \div 262144, (n \div 4096) % 64, (n \div 64) % 64, n % 64>>
            \o Encode(SubSeq(vec, 4, Len(vec)))
    ELSE IF Len(vec) = 2
    THEN <<vec[1] \div 4, (vec[1] % 4) * 16 + vec[2] \div 16, (vec[2] % 16) * 4, Pad>>
    ELSE IF Len(vec) = 1
    THEN <<vec[1] \div 4, (vec[1] % 4) * 16, Pad, Pad>>
    ELSE <<>>

\* Strings handed to the base64 operations: the text of every file, and
\* malformed text: a symbol outside the alphabet, a length of 1 mod 4,
\* padding in the middle, stray bits in the last symbol.
Base64Strings ==
    { Encode(f) : f \in Files }
    \cup { <<Bad>>, <<34>>, <<34, 16, Bad, 0>>, <<34, Pad, 16, 0>>, <<34, 17>>,
           <<34, 16, Pad, Pad, Pad>> }

\* ------------------------------------------------------------------- Rgb
Rgb_new(r, g, b) == [r |-> r, g |-> g, b |-> b]

set_red(self, r) == [self EXCEPT !.r = r]

\* set_green assigning the red component.
set_green_assigns_red(self, g) == [self EXCEPT !.r = g]

set_green(self, g) == [self EXCEPT !.g = g]

set_blue(self, b) == [self EXCEPT !.b = b]

get_red(self) == self.r

get_green(self) == self.g

get_blue(self) == self.b

NoRgb == Rgb_new(0, 0, 0)

\* Rgb::from(vec): ok = FALSE is the panic!("Vec length must be equal to 3.").
Rgb_from(vec) ==
    IF Len(vec) # 3 THEN [ok |-> FALSE, val |-> NoRgb]
    ELSE [ok |-> TRUE, val |-> Rgb_new(vec[1], vec[2], vec[3])]

\* Component values handed to Rgb::new and the setters.
SampleBytes == {0, 255} \cup { Fill(s, 1)[1] : s \in Seeds }

\* ---------------------------------------------------------------- state
Init ==
    /\ image = <<>>
    /\ pre = <<>>
    /\ rgb = <<>>
    /\ preRgb = <<>>
    /\ given = <<>>
    /\ op = "none"
    /\ outcome = "ok"
    /\ arg = NoArg
    /\ retNum = 0
    /\ retVec = <<>>
    /\ alias = FALSE
    /\ retData = NoData
    /\ origin = <<>>

\* What every image operation sets: the call, its outcome, the image and
\* what was returned (a return value not mentioned is cleared).
Image_call(o, out, a, im, p, n, v, sh, d, org) ==
    /\ op' = o
    /\ outcome' = out
    /\ arg' = a
    /\ image' = im
    /\ pre' = p
    /\ retNum' = n
    /\ retVec' = v
    /\ alias' = sh
    /\ retData' = d
    /\ origin' = org
    /\ UNCHANGED <<rgb, preRgb, given>>

Args(bytes, width, height) == [width |-> width, height |-> height, bytes |-> bytes]

\* PhotonImage::new(raw_pixels, width, height)
New ==
    \E s \in Seeds, n \in 0..MaxLen, w \in Dim, h \in Dim :
        Image_call("new", "ok", Args(Fill(s, n), w, h),
                   <<new(Fill(s, n), w, h)>>, <<>>, 0, <<>>, FALSE, NoData, <<>>)

GetWidth ==
    /\ image # <<>>
    /\ Image_call("get_width", "ok", NoArg, image, image,
                  get_width(image[1]), <<>>, FALSE, NoData, <<>>)

GetHeight ==
    /\ image # <<>>
    /\ Image_call("get_height", "ok", NoArg, image, image,
                  get_height(image[1]), <<>>, FALSE, NoData, <<>>)

GetRawPixels ==
    /\ image # <<>>
    /\ LET r == get_raw_pixels(image[1])
       IN Image_call("get_raw_pixels", "ok", NoArg, image, image,
                     0, r.vec, r.shares, NoData, <<>>)

\* get_image_data(&mut self): the ImageData of the buffer, or the panic of
\* the unwrap, which leaves self as it was.
GetImageData ==
    /\ image # <<>>
    /\ LET r == image_data_of(image[1])
       IN IF r.ok
          THEN Image_call("get_image_data", "ok", NoArg, image, image,
                          0, <<>>, FALSE, r.val, image)
          ELSE Image_call("get_image_data", "panic", NoArg, image, image,
                          0, <<>>, FALSE, NoData, <<>>)

\* to_image_data(photon_image) takes the image by value: the caller no
\* longer holds it, whether the call returns or panics.
ToImageData ==
    /\ image # <<>>
    /\ LET r == image_data_of(image[1])
       IN IF r.ok
          THEN Image_call("to_image_data", "ok", NoArg, <<>>, image,
                          0, <<>>, FALSE, r.val, image)
          ELSE Image_call("to_image_data", "panic", NoArg, <<>>, image,
                          0, <<>>, FALSE, NoData, <<>>)

\* The ImageData values a caller can pass: one of the host's, or the one the
\* last call returned (with the image it was made from).
PassedImageData ==
    { [d |-> d, from |-> <<>>] : d \in HostImageData }
    \cup (IF retData # NoData THEN {[d |-> retData, from |-> origin]} ELSE {})

SetImgdata ==
    /\ image # <<>>
    /\ \E x \in PassedImageData :
        Image_call("set_imgdata", "ok", Args(x.d.data, x.d.width, x.d.height),
                   <<set_imgdata(image[1], x.d)>>, image, 0, <<>>, FALSE, NoData, <<>>)

\* PhotonImage::from(imgdata)
FromImageData ==
    \E x \in PassedImageData :
        Image_call("from", "ok", Args(x.d.data, x.d.width, x.d.height),
                   <<PhotonImage_from(x.d)>>, <<>>, 0, <<>>, FALSE, NoData, x.from)

OpenImage ==
    \E c \in Canvases :
        LET r == open_image(c)
        IN IF r.ok
           THEN Image_call("open_image", "ok", Args(<<c.seed>>, c.width, c.height),
                           <<r.val>>, <<>>, 0, <<>>, FALSE, NoData, <<>>)
           ELSE Image_call("open_image", "panic", Args(<<c.seed>>, c.width, c.height),
                           <<>>, <<>>, 0, <<>>, FALSE, NoData, <<>>)

\* A constructor that decodes: the image it returns, or its panic.
Decode_call(o, input, r) ==
    IF r.ok
    THEN Image_call(o, "ok", Args(input, 0, 0), <<r.val>>, <<>>, 0, <<>>, FALSE, NoData, <<>>)
    ELSE Image_call(o, "panic", Args(input, 0, 0), <<>>, <<>>, 0, <<>>, FALSE, NoData, <<>>)

NewFromByteslice ==
    \E f \in Files : Decode_call("new_from_byteslice", f, new_from_byteslice(f))

NewFromBase64 ==
    \E s \in Base64Strings : Decode_call("new_from_base64", s, new_from_base64(s))

Base64ToImage ==
    \E s \in Base64Strings : Decode_call("base64_to_image", s, base64_to_image(s))

\* The free functions that return a Vec<u8> leave the caller's image alone.
Base64ToVec ==
    \E s \in Base64Strings :
        LET r == base64_to_vec(s)
        IN Image_call("base64_to_vec", IF r.ok THEN "ok" ELSE "panic", Args(s, 0, 0),
                      image, image, 0, r.val, FALSE, NoData, <<>>)

ToRawPixels ==
    \E d \in HostImageData :
        Image_call("to_raw_pixels", "ok", Args(d.data, d.width, d.height),
                   image, image, 0, to_raw_pixels(d), FALSE, NoData, <<>>)

\* The caller changes a byte of the Vec<u8> that get_raw_pixels gave it; the
\* change reaches the image only if the vector shares the image's buffer.
CallerWrites ==
    /\ op = "get_raw_pixels"
    /\ \E i \in 1..Len(retVec) :
        /\ retVec' = [retVec EXCEPT ![i] = 255 - retVec[i]]
        /\ image' = IF alias
                    THEN <<[image[1] EXCEPT !.raw_pixels[i] = 255 - retVec[i]]>>
                    ELSE image
        /\ arg' = Args(<<255 - retVec[i]>>, i, 0)
    /\ pre' = image
    /\ op' = "caller_write"
    /\ outcome' = "ok"
    /\ UNCHANGED <<rgb, preRgb, given, retNum, alias, retData, origin>>

Next ==
    \/ New
    \/ NewFromBase64
    \/ NewFromByteslice
    \/ GetWidth
    \/ GetHeight
    \/ GetRawPixels
    \/ GetImageData
    \/ SetImgdata
    \/ FromImageData
    \/ OpenImage
    \/ Base64ToImage
    \/ Base64ToVec
    \/ ToImageData
    \/ ToRawPixels
    \/ CallerWrites

Spec == Init /\ [][Next]_vars

\* ------------------------------------------------------- Rgb operations
\* What every Rgb operation sets; the image is left alone.
Rgb_call(o, out, a, c, p, gv, n) ==
    /\ op' = o
    /\ outcome' = out
    /\ arg' = a
    /\ rgb' = c
    /\ preRgb' = p
    /\ given' = gv
    /\ retNum' = n
    /\ UNCHANGED <<image, pre, retVec, alias, retData, origin>>

RgbNew ==
    \E x \in SampleBytes, y \in SampleBytes, z \in SampleBytes :
        Rgb_call("Rgb_new", "ok", Args(<<x, y, z>>, 0, 0),
                 <<Rgb_new(x, y, z)>>, <<>>, <<x, y, z>>, 0)

SetRed ==
    /\ rgb # <<>>
    /\ \E x \in SampleBytes :
        Rgb_call("set_red", "ok", Args(<<x>>, 0, 0),
                 <<set_red(rgb[1], x)>>, rgb, [given EXCEPT ![1] = x], 0)

SetGreen ==
    /\ rgb # <<>>
    /\ \E x \in SampleBytes :
        Rgb_call("set_green", "ok", Args(<<x>>, 0, 0),
                 <<set_green(rgb[1], x)>>, rgb, [given EXCEPT ![2] = x], 0)

SetBlue ==
    /\ rgb # <<>>
    /\ \E x \in SampleBytes :
        Rgb_call("set_blue", "ok", Args(<<x>>, 0, 0),
                 <<set_blue(rgb[1], x)>>, rgb, [given EXCEPT ![3] = x], 0)

GetRed ==
    /\ rgb # <<>>
    /\ Rgb_call("get_red", "ok", NoArg, rgb, rgb, given, get_red(rgb[1]))

GetGreen ==
    /\ rgb # <<>>
    /\ Rgb_call("get_green", "ok", NoArg, rgb, rgb, given, get_green(rgb[1]))

GetBlue ==
    /\ rgb # <<>>
    /\ Rgb_call("get_blue", "ok", NoArg, rgb, rgb, given, get_blue(rgb[1]))

\* Rgb::from(vec): the colour, or the panic, after which there is none.
RgbFrom ==
    \E s \in Seeds, n \in 0..MaxLen :
        LET r == Rgb_from(Fill(s, n))
        IN IF r.ok
           THEN Rgb_call("Rgb_from", "ok", Args(Fill(s, n), 0, 0),
                         <<r.val>>, <<>>, Fill(s, n), 0)
           ELSE Rgb_call("Rgb_from", "panic", Args(Fill(s, n), 0, 0),
                         <<>>, <<>>, <<>>, 0)

NextRgb ==
    \/ RgbNew
    \/ SetRed
    \/ SetGreen
    \/ SetBlue
    \/ GetRed
    \/ GetGreen
    \/ GetBlue
    \/ RgbFrom

SpecRgb == Init /\ [][NextRgb]_vars

\* ---------------------------------------------------------------- claims
\* len(buffer) = 4 * width * height of an image.
SizeOk(img) == Len(img.raw_pixels) = 4 * img.width * img.height

\* The error values of the specification's taxonomy.
ErrorValues == {"InvalidArgument", "OutOfBounds", "SizeMismatch"}

\* C1: in every reachable state the image's byte buffer has length exactly
\* 4 * width * height.
C1_BufferLengthInvariant == image # <<>> => SizeOk(image[1])

\* C2: PhotonImage::new(bytes, width, height) fails with InvalidArgument and
\* produces no image when len(bytes) # 4 * width * height, and succeeds when
\* the length matches.
C2_NewChecksLength ==
    op = "new" =>
        IF Len(arg.bytes) # 4 * arg.width * arg.height
        THEN outcome = "InvalidArgument" /\ image = <<>>
        ELSE outcome = "ok" /\ image # <<>>

C4_RgbFromChecksLength ==
    op = "Rgb_from" =>
        IF Len(arg.bytes) # 3
        THEN outcome = "InvalidArgument"
        ELSE /\ outcome = "ok"
             /\ rgb = <<Rgb_new(arg.bytes[1], arg.bytes[2], arg.bytes[3])>>

\* C5: the base64 operations, the decoding constructors and the two
\* ImageData conversions end with a value or an error value, never a panic.
C5_NoOperationAborts ==
    op \in {"base64_to_vec", "base64_to_image", "new_from_base64",
            "new_from_byteslice", "get_image_data", "to_image_data"}
        => outcome \in {"ok"} \cup ErrorValues

\* The file a decoding constructor was given.
DecodedFile == IF op = "new_from_byteslice" THEN arg.bytes ELSE decode(arg.bytes).val

\* C6: an image produced by decoding has the decoded file's width and
\* height and a buffer of 4 * width * height bytes, whatever the file's
\* colour type.
C6_DecodedImagesAreRGBA ==
    (op \in {"new_from_byteslice", "base64_to_image", "new_from_base64"} /\ outcome = "ok") =>
        /\ image[1].width = load_from_memory(DecodedFile).val.width
        /\ image[1].height = load_from_memory(DecodedFile).val.height
        /\ SizeOk(image[1])

\* C7: get_width, get_height and get_raw_pixels leave the image as it was;
\* get_raw_pixels returns the bytes of the buffer; a write the caller then
\* makes to the returned bytes changes them and not the image.
C7_AccessorsReadOnly ==
    /\ op \in {"get_width", "get_height", "get_raw_pixels"} => image = pre
    /\ op = "get_raw_pixels" => retVec = image[1].raw_pixels
    /\ op = "caller_write" =>
            /\ image = pre
            /\ retVec # image[1].raw_pixels
            /\ retVec[arg.width] = arg.bytes[1]

\* The caller has written to the bytes get_raw_pixels returned.
C7_Witness ==
    /\ op = "caller_write"
    /\ Len(retVec) = Len(image[1].raw_pixels)
    /\ retVec[arg.width] # image[1].raw_pixels[arg.width]

\* C8: the getters return the value most recently given for their component
\* by the constructor or that component's setter, and a setter changes its
\* own component only.
C8_RgbAccessors ==
    /\ rgb # <<>> =>
            /\ get_red(rgb[1]) = given[1]
            /\ get_green(rgb[1]) = given[2]
            /\ get_blue(rgb[1]) = given[3]
    /\ op = "get_red" => retNum = given[1] /\ rgb = preRgb
    /\ op = "get_green" => retNum = given[2] /\ rgb = preRgb
    /\ op = "get_blue" => retNum = given[3] /\ rgb = preRgb
    /\ op = "set_red" =>
            /\ rgb[1].r = arg.bytes[1]
            /\ rgb[1].g = preRgb[1].g /\ rgb[1].b = preRgb[1].b
    /\ op = "set_green" =>
            /\ rgb[1].g = arg.bytes[1]
            /\ rgb[1].r = preRgb[1].r /\ rgb[1].b = preRgb[1].b
    /\ op = "set_blue" =>
            /\ rgb[1].b = arg.bytes[1]
            /\ rgb[1].r = preRgb[1].r /\ rgb[1].g = preRgb[1].g

\* set_green has changed the green of a colour whose three components differ.
C8_Witness ==
    /\ op = "set_green"
    /\ rgb[1].g # preRgb[1].g
    /\ rgb[1].r # rgb[1].g
    /\ rgb[1].b # rgb[1].g
    /\ rgb[1].r # rgb[1].b

\* C9: after set_imgdata(d) the image's width, height and bytes are d's and
\* nothing else, so the image has len = 4 * width * height whenever d has.
C9_SetImgdataReplacesAll ==
    op = "set_imgdata" =>
        /\ get_width(image[1]) = arg.width
        /\ get_height(image[1]) = arg.height
        /\ get_raw_pixels(image[1]).vec = arg.bytes
        /\ image[1] = PhotonImage(arg.bytes, arg.width, arg.height)
        /\ (Len(arg.bytes) = 4 * arg.width * arg.height => SizeOk(image[1]))

\* set_imgdata was called on an image of other dimensions whose buffer did
\* not match them.
C9_Witness ==
    /\ op = "set_imgdata"
    /\ ~SizeOk(pre[1])
    /\ pre[1].width # image[1].width
    /\ pre[1].height # image[1].height
    /\ SizeOk(image[1])

====
